---- MODULE Spec2Model ----
(***************************************************************************)
(* A model of the Db handle of native_db (src/src/db.rs): the watcher-id   *)
(* counter, the watch registry behind its readers-writer lock, the         *)
(* registration and unwatch calls, the table definitions that define      *)
(* registers, read transactions, and write transactions whose Batch of     *)
(* events is dispatched to the registry after the engine's commit.         *)
(*                                                                         *)
(* The parts of the crate that db.rs calls but that are not in src/ (the   *)
(* Transaction's insert/update/remove/commit, watch::Watchers,             *)
(* watch::TableFilter, watch::Batch, the dispatch loop) are modelled from  *)
(* spec.md sections 3, 4.2, 4.4 and 5.                                      *)
(***************************************************************************)
EXTENDS Integers, Sequences, FiniteSets, TLC

VARIABLES
    watchers_counter_id,  \* Db.watchers_counter_id : AtomicU64
    watchers,             \* Db.watchers : the registry, id -> [filter, sender]
    readers,              \* threads holding shared access to the registry lock
    write_txn,            \* the threads owning the engine's write transaction: at most one
    pc,                   \* pc[t] : where thread t is inside its current call
    local,                \* local[t] : locals of watch_generic: id, filter, sender
    batch,                \* batch[t] : the Batch of t's open transaction
    targets,              \* targets[t] : senders the running fan-out loop has still to serve
    txn_of,               \* txn_of[t] : number of the transaction t has open (0: none)
    chan,                 \* chan[c] : the events sent on channel c, in order
    ret,                  \* ret[t] : what t's last completed call returned
    calls,                \* history: calls[c] is the watch call that created channel c,
                          \*   what it returned, and how many transactions had begun then
    cancelled,            \* history: channels whose id an unwatch has been given
    cancelled_again,      \* history: channels whose id an unwatch has been given again
    txns,                 \* history: txns[x] is the state of transaction x and the
                          \*   events it enqueued
    commit_order,         \* history: the transactions in the order the engine committed them
    fanout,               \* history: the senders registered when an event's fan-out began
    ncalls,               \* the calls made so far
    table_definitions,    \* Db.table_definitions : table name -> TableDefinition
    tables,               \* Db.instance : the committed tables of the engine,
                          \*   <<table name, key>> -> value
    work,                 \* work[t] : the tables as t's open write transaction has them
    snapshot,             \* snapshot[t] : the tables as t's read transaction sees them
    dropped               \* the channels whose Receiver has been dropped

vars == <<watchers_counter_id, watchers, readers, write_txn, pc, local, batch,
          targets, txn_of, chan, ret, calls, cancelled, cancelled_again, txns,
          commit_order, fanout, ncalls, table_definitions, tables, work, snapshot,
          dropped>>

----------------------------------------------------------------------------
(* Bounds of the model. *)

\* The counter is an AtomicU64; the model keeps its wrap-around and scales the
\* width down to CounterBits bits so that the maximum is within reach.
CounterBits == 2
\* Calls made on the Db and its transactions, over all threads.
MaxCalls == 5
\* The same, in the specification of the registry alone.
IdCalls == 5
\* The same, in the specification that draws keys, prefixes and items freely.
MatchCalls == 3
\* The same, in the specification of the secondary watches.
SecCalls == 3
\* The same, in the specification of the schema registry and the tables.
TableCalls == 5
\* The same, in the specification of sends to dropped receivers.
SendCalls == 5
\* The same, in the specification with fair scheduling.
LiveCalls == 4

Threads == {1, 2}

----------------------------------------------------------------------------
(* Values. *)

\* u64::MAX (db.rs:179), at the model's width.
U64_MAX == 2^CounterBits - 1
U64 == 0..U64_MAX

\* Option<&[u8]>
None == <<>>
Some(k) == <<k>>

\* Byte strings: "a" is <<1>>, "ab" is <<1, 2>>, "ba" is <<2, 1>>.
Keys == {<<1>>, <<1, 2>>, <<2, 1>>}

\* The storable types, each with the schema its derive macro gives it.
Types == {"A", "B"}
\* The key definitions (secondary indexes) of a type.
KeyDefs == {"N1", "N2"}

\* T::struct_db_schema().table_name
table_name(T) == IF T = "A" THEN "table_a" ELSE "table_b"

\* str::as_bytes, on the table names in use.
as_bytes(s) == IF s = "table_a" THEN <<116, 97>> ELSE <<116, 98>>

RECURSIVE Reverse(_)
Reverse(s) == IF s = <<>> THEN <<>> ELSE Append(Reverse(Tail(s)), Head(s))

\* The items of the model: a type and a primary key; the secondary keys
\* are derived from the item (the domain-item contract): under N1 the primary
\* key reversed, under N2 its first byte.
Items == [type : Types, pk : Keys]
secondary_keys(item) == [n \in KeyDefs |->
                           IF n = "N1" THEN Reverse(item.pk) ELSE <<Head(item.pk)>>]

\* starts_with on byte strings
starts_with(k, p) == Len(p) <= Len(k) /\ SubSeq(k, 1, Len(p)) = p

----------------------------------------------------------------------------
(* watch::request::WatcherRequest *)

WatcherRequest_new(name, primary_key_value, secondary_keys_value) ==
    [table_name |-> as_bytes(name),
     primary_key_value |-> primary_key_value,
     secondary_keys_value |-> secondary_keys_value]

\* The request an item gives rise to.
request_of(item) ==
    WatcherRequest_new(table_name(item.type), item.pk, secondary_keys(item))

----------------------------------------------------------------------------
(* watch::TableFilter (spec.md 3): a table, a key kind (primary or the    *)
(* name of a secondary index) and a match kind (all, exact, prefix).       *)

new_primary(table, key) ==
    [table_name |-> table, key_kind |-> "primary",
     match |-> IF key = None THEN "all" ELSE "exact",
     bytes |-> IF key = None THEN <<>> ELSE key[1]]

new_primary_start_with(table, key_prefix) ==
    [table_name |-> table, key_kind |-> "primary",
     match |-> "prefix", bytes |-> key_prefix]

new_secondary(table, key_def, key) ==
    [table_name |-> table, key_kind |-> key_def,
     match |-> IF key = None THEN "all" ELSE "exact",
     bytes |-> IF key = None THEN <<>> ELSE key[1]]

new_secondary_start_with(table, key_def, key_prefix) ==
    [table_name |-> table, key_kind |-> key_def,
     match |-> "prefix", bytes |-> key_prefix]

\* The bytes of a request that a filter compares (spec.md 4.4).
compared_bytes(filter, request) ==
    IF filter.key_kind = "primary"
    THEN request.primary_key_value
    ELSE request.secondary_keys_value[filter.key_kind]

\* Whether a filter matches one request (spec.md 4.4).
filter_matches_request(filter, request) ==
    /\ filter.table_name = request.table_name
    /\ CASE filter.match = "all" -> TRUE
         [] filter.match = "exact" -> compared_bytes(filter, request) = filter.bytes
         [] filter.match = "prefix" ->
                starts_with(compared_bytes(filter, request), filter.bytes)

\* Whether a filter matches an event: an Insert or Delete by its key, an
\* Update by its old key or its new key (spec.md 4.4).
filter_matches(filter, event) ==
    \E i \in 1..Len(event.requests) : filter_matches_request(filter, event.requests[i])

----------------------------------------------------------------------------
(* Db::init *)

\* HashMap::new(), and a newly created engine file: no entry.
NoEntries == [k \in {} |-> k]

NoLocal == [id |-> 0, filter |-> new_primary(<<>>, None), sender |-> 0]

Init ==
    /\ watchers_counter_id = 0
    /\ watchers = <<>>
    /\ readers = {}
    /\ write_txn = {}
    /\ pc = [t \in Threads |-> "idle"]
    /\ local = [t \in Threads |-> NoLocal]
    /\ batch = [t \in Threads |-> <<>>]
    /\ targets = [t \in Threads |-> {}]
    /\ txn_of = [t \in Threads |-> 0]
    /\ chan = <<>>
    /\ ret = [t \in Threads |-> "Ok"]
    /\ calls = <<>>
    /\ cancelled = {}
    /\ cancelled_again = {}
    /\ txns = <<>>
    /\ commit_order = <<>>
    /\ fanout = <<>>
    /\ ncalls = 0
    /\ table_definitions = NoEntries
    /\ tables = NoEntries
    /\ work = [t \in Threads |-> NoEntries]
    /\ snapshot = [t \in Threads |-> NoEntries]
    /\ dropped = {}

----------------------------------------------------------------------------
(* watch::Watchers (spec.md 4.4): the id -> record map. *)

add_sender(w, id, filter, sender) ==
    [i \in DOMAIN w \cup {id} |->
        IF i = id THEN [filter |-> filter, sender |-> sender] ELSE w[i]]

remove_sender(w, id) == [i \in DOMAIN w \ {id} |-> w[i]]

\* The senders of the records whose filter matches the event.
find_senders(w, event) ==
    {w[i].sender : i \in {j \in DOMAIN w : filter_matches(w[j].filter, event)}}

\* All senders in the registry.
all_senders(w) == {w[i].sender : i \in DOMAIN w}

\* RwLock::write: exclusive access is granted when nobody holds the lock.  The
\* exclusive sections of db.rs are one map operation long and are taken as one
\* step, so no state has a writer inside.
write_lock_free == readers = {}

----------------------------------------------------------------------------
(* Db::generate_watcher_id and Db::watch_generic *)

\* AtomicU64::fetch_add(1): the value before, and the wrapping sum after.
fetch_add_1(counter) == [value |-> counter, next |-> (counter + 1) % (2^CounterBits)]

\* generate_watcher_id's result for the value fetch_add returned.
generate_watcher_id(value) ==
    IF value = U64_MAX THEN [ok |-> FALSE, err |-> "MaxWatcherReached", id |-> 0]
    ELSE [ok |-> TRUE, err |-> "", id |-> value]

\* watch_generic up to the point where it asks for the registry lock: the
\* channel is created, the id is generated, a failure is returned with `?`.
watch_generic(t, table_filter, call) ==
    LET c == Len(chan) + 1
        f == fetch_add_1(watchers_counter_id)
        r == generate_watcher_id(f.value)
    IN  /\ pc[t] = "idle"
        /\ chan' = Append(chan, <<>>)
        /\ watchers_counter_id' = f.next
        /\ IF r.ok
           THEN /\ pc' = [pc EXCEPT ![t] = "add_sender"]
                /\ local' = [local EXCEPT ![t] =
                                [id |-> r.id, filter |-> table_filter, sender |-> c]]
                /\ ret' = ret
                /\ calls' = Append(calls, [call |-> call, res |-> "pending", id |-> r.id,
                                               at |-> 0])
           ELSE /\ pc' = pc
                /\ local' = local
                /\ ret' = [ret EXCEPT ![t] = r.err]
                /\ calls' = Append(calls, [call |-> call, res |-> r.err, id |-> 0,
                                               at |-> Len(txns)])
        /\ UNCHANGED <<watchers, readers, write_txn, batch, targets, txn_of,
                       cancelled, cancelled_again, txns, commit_order, fanout,
                   table_definitions, tables, work, snapshot, dropped>>

\* The rest of watch_generic: the entry is added under exclusive access and
\* (receiver, id) is returned.
watch_generic_add(t) ==
    /\ pc[t] = "add_sender"
    /\ write_lock_free
    /\ watchers' = add_sender(watchers, local[t].id, local[t].filter, local[t].sender)
    /\ pc' = [pc EXCEPT ![t] = "idle"]
    /\ local' = [local EXCEPT ![t] = NoLocal]
    /\ ret' = [ret EXCEPT ![t] = "Ok"]
    /\ calls' = [calls EXCEPT ![local[t].sender].res = "Ok",
                              ![local[t].sender].at = Len(txns)]
    /\ UNCHANGED <<watchers_counter_id, readers, write_txn, batch, targets, txn_of,
                   chan, cancelled, cancelled_again, txns, commit_order, fanout,
                   table_definitions, tables, work, snapshot, dropped>>

----------------------------------------------------------------------------
(* The four watch functions: each builds its TableFilter and registers it. *)

\* A primary_watch that builds the prefix filter.
primary_watch_filter_prefix(T, key) ==
    new_primary_start_with(as_bytes(table_name(T)), IF key = None THEN <<>> ELSE key[1])

primary_watch_filter(T, key) ==
    new_primary(as_bytes(table_name(T)), key)

\* A primary_watch_start_with that builds the exact filter.
primary_watch_start_with_filter_exact(T, key_prefix) ==
    new_primary(as_bytes(table_name(T)), Some(key_prefix))

primary_watch_start_with_filter(T, key_prefix) ==
    new_primary_start_with(as_bytes(table_name(T)), key_prefix)

\* A secondary_watch that builds the primary filter.
secondary_watch_filter_primary(T, key_def, key) ==
    new_primary(as_bytes(table_name(T)), key)

secondary_watch_filter(T, key_def, key) ==
    new_secondary(as_bytes(table_name(T)), key_def, key)

secondary_watch_start_with_filter(T, key_def, key_prefix) ==
    new_secondary_start_with(as_bytes(table_name(T)), key_def, key_prefix)

primary_watch(t, T, key) ==
    watch_generic(t, primary_watch_filter(T, key),
                  [fn |-> "primary_watch", type |-> T, key_def |-> "", arg |-> key])

primary_watch_start_with(t, T, key_prefix) ==
    watch_generic(t, primary_watch_start_with_filter(T, key_prefix),
                  [fn |-> "primary_watch_start_with", type |-> T, key_def |-> "",
                   arg |-> key_prefix])

secondary_watch(t, T, key_def, key) ==
    watch_generic(t, secondary_watch_filter(T, key_def, key),
                  [fn |-> "secondary_watch", type |-> T, key_def |-> key_def, arg |-> key])

secondary_watch_start_with(t, T, key_def, key_prefix) ==
    watch_generic(t, secondary_watch_start_with_filter(T, key_def, key_prefix),
                  [fn |-> "secondary_watch_start_with", type |-> T, key_def |-> key_def,
                   arg |-> key_prefix])

----------------------------------------------------------------------------
(* Db::unwatch *)

\* The channels that the id given to unwatch was returned for.
channels_of(id) == {c \in 1..Len(calls) : calls[c].res = "Ok" /\ calls[c].id = id}

\* An unwatch that does not wait for the registry lock.
unwatch_without_lock(t, id) ==
    /\ pc[t] = "idle"
    /\ watchers' = remove_sender(watchers, id)
    /\ ret' = [ret EXCEPT ![t] = "Ok"]
    /\ cancelled' = cancelled \cup channels_of(id)
    /\ cancelled_again' = cancelled_again \cup (cancelled \cap channels_of(id))
    /\ UNCHANGED <<watchers_counter_id, readers, write_txn, pc, local, batch, targets,
                   txn_of, chan, calls, txns, commit_order, fanout,
                   table_definitions, tables, work, snapshot, dropped>>

\* An unwatch that removes the entries up to the id it is given.
unwatch_up_to(t, id) ==
    /\ pc[t] = "idle"
    /\ write_lock_free
    /\ watchers' = [i \in {j \in DOMAIN watchers : j > id} |-> watchers[i]]
    /\ ret' = [ret EXCEPT ![t] = "Ok"]
    /\ cancelled' = cancelled \cup channels_of(id)
    /\ cancelled_again' = cancelled_again \cup (cancelled \cap channels_of(id))
    /\ UNCHANGED <<watchers_counter_id, readers, write_txn, pc, local, batch, targets,
                   txn_of, chan, calls, txns, commit_order, fanout,
                   table_definitions, tables, work, snapshot, dropped>>

unwatch(t, id) ==
    /\ pc[t] = "idle"
    /\ write_lock_free
    /\ watchers' = remove_sender(watchers, id)
    /\ ret' = [ret EXCEPT ![t] = "Ok"]
    /\ cancelled' = cancelled \cup channels_of(id)
    /\ cancelled_again' = cancelled_again \cup (cancelled \cap channels_of(id))
    /\ UNCHANGED <<watchers_counter_id, readers, write_txn, pc, local, batch, targets,
                   txn_of, chan, calls, txns, commit_order, fanout,
                   table_definitions, tables, work, snapshot, dropped>>

----------------------------------------------------------------------------
(* Db::transaction, and the Transaction it returns (spec.md 4.2). *)

\* watch::Batch::new
Batch_new == <<>>

\* Event constructors: the kind, the item(s) involved, and the request(s)
\* the registry matches the event by.  txn and idx say which transaction
\* enqueued the event and where in its Batch (history, not read by the code).
Event_new_insert(item, x, i) ==
    [kind |-> "Insert", items |-> <<item>>, requests |-> <<request_of(item)>>,
     txn |-> x, idx |-> i]

Event_new_update(old_item, new_item, x, i) ==
    [kind |-> "Update", items |-> <<old_item, new_item>>,
     requests |-> <<request_of(old_item), request_of(new_item)>>,
     txn |-> x, idx |-> i]

Event_new_delete(item, x, i) ==
    [kind |-> "Delete", items |-> <<item>>, requests |-> <<request_of(item)>>,
     txn |-> x, idx |-> i]

\* The engine's named tables (spec.md 6): insert, remove, get and the
\* number of entries of a table.  Only the primary tables are kept; the
\* secondary tables are derived from them by secondary_keys.
table_insert_if_absent(tb, name, key, value) ==
    [k \in DOMAIN tb \cup {<<name, key>>} |-> IF k \in DOMAIN tb THEN tb[k] ELSE value]

table_insert(tb, name, key, value) ==
    [k \in DOMAIN tb \cup {<<name, key>>} |-> IF k = <<name, key>> THEN value ELSE tb[k]]

table_remove(tb, name, key) == [k \in DOMAIN tb \ {<<name, key>>} |-> tb[k]]

table_get(tb, name, key) ==
    IF <<name, key>> \in DOMAIN tb THEN Some(tb[<<name, key>>]) ELSE None

table_len(tb, name) == Cardinality({k \in DOMAIN tb : k[1] = name})

\* primary_get<T>(key) and len<T>() of a table accessor over the tables tb.
primary_get(tb, T, key) == table_get(tb, table_name(T), key)
len(tb, T) == table_len(tb, table_name(T))

\* A transaction that does not wait for the engine's write transaction.
transaction_unserialized(t) ==
    /\ pc[t] = "idle"
    /\ write_txn' = write_txn \cup {t}
    /\ pc' = [pc EXCEPT ![t] = "txn"]
    /\ batch' = [batch EXCEPT ![t] = Batch_new]
    /\ txn_of' = [txn_of EXCEPT ![t] = Len(txns) + 1]
    /\ txns' = Append(txns, [state |-> "open", events |-> <<>>])
    /\ ret' = [ret EXCEPT ![t] = "Ok"]
    /\ work' = [work EXCEPT ![t] = tables]
    /\ UNCHANGED <<watchers_counter_id, watchers, readers, local, targets, chan,
                   calls, cancelled, cancelled_again, commit_order, fanout,
                   table_definitions, tables, snapshot, dropped>>

\* Db::transaction: begin_write waits for the engine's one write transaction,
\* then the Transaction is built around a new, empty Batch.
transaction(t) ==
    /\ pc[t] = "idle"
    /\ write_txn = {}
    /\ write_txn' = {t}
    /\ pc' = [pc EXCEPT ![t] = "txn"]
    /\ batch' = [batch EXCEPT ![t] = Batch_new]
    /\ txn_of' = [txn_of EXCEPT ![t] = Len(txns) + 1]
    /\ txns' = Append(txns, [state |-> "open", events |-> <<>>])
    /\ ret' = [ret EXCEPT ![t] = "Ok"]
    /\ work' = [work EXCEPT ![t] = tables]
    /\ UNCHANGED <<watchers_counter_id, watchers, readers, local, targets, chan,
                   calls, cancelled, cancelled_again, commit_order, fanout,
                   table_definitions, tables, snapshot, dropped>>

\* Db::transaction when begin_write fails: the failure is returned with `?`.
transaction_fails(t) ==
    /\ pc[t] = "idle"
    /\ ret' = [ret EXCEPT ![t] = "BeginError"]
    /\ UNCHANGED <<watchers_counter_id, watchers, readers, write_txn, pc, local, batch,
                   targets, txn_of, chan, calls, cancelled, cancelled_again, txns, commit_order, fanout,
                   table_definitions, tables, work, snapshot, dropped>>

\* One more event in the Batch of t's transaction.
enqueue(t, event) ==
    /\ pc[t] = "txn"
    /\ batch' = [batch EXCEPT ![t] = Append(batch[t], event)]
    /\ txns' = [txns EXCEPT ![txn_of[t]].events = Append(@, event)]
    /\ UNCHANGED <<watchers_counter_id, watchers, readers, write_txn, pc, local,
                   targets, txn_of, chan, ret, calls, cancelled, cancelled_again,
                   commit_order, fanout,
                   table_definitions, tables, snapshot, dropped>>

\* insert: the item is upserted into its type's primary table under its
\* primary key, and an Insert event is enqueued.
insert(t, item) ==
    /\ enqueue(t, Event_new_insert(item, txn_of[t], Len(batch[t]) + 1))
    /\ work' = [work EXCEPT ![t] = table_insert(@, table_name(item.type), item.pk, item)]

\* update: the new item is written into the primary table under its key (no
\* removal of the entry under the old key is described), and an Update event
\* with both items is enqueued.
update(t, old_item, new_item) ==
    /\ old_item.type = new_item.type
    /\ enqueue(t, Event_new_update(old_item, new_item, txn_of[t], Len(batch[t]) + 1))
    /\ work' = [work EXCEPT ![t] =
                    table_insert(@, table_name(new_item.type), new_item.pk, new_item)]

\* remove: the item's primary entry is deleted, and a Delete event is
\* enqueued.
remove(t, item) ==
    /\ enqueue(t, Event_new_delete(item, txn_of[t], Len(batch[t]) + 1))
    /\ work' = [work EXCEPT ![t] = table_remove(@, table_name(item.type), item.pk)]

\* A drop that flushes the Batch as a commit would.
drop_transaction_flushes(t) ==
    /\ pc[t] = "txn"
    /\ write_txn' = {}
    /\ pc' = [pc EXCEPT ![t] = "drain"]
    /\ txns' = [txns EXCEPT ![txn_of[t]].state = "aborted"]
    /\ work' = [work EXCEPT ![t] = NoEntries]
    /\ UNCHANGED <<watchers_counter_id, watchers, readers, local, batch, targets,
                   txn_of, chan, ret, calls, cancelled, cancelled_again, commit_order,
                   fanout,
                   table_definitions, tables, snapshot, dropped>>

\* Dropping the Transaction without commit: the engine rolls back and frees
\* the write transaction, the Batch is discarded.
drop_transaction(t) ==
    /\ pc[t] = "txn"
    /\ write_txn' = {}
    /\ pc' = [pc EXCEPT ![t] = "idle"]
    /\ batch' = [batch EXCEPT ![t] = <<>>]
    /\ txns' = [txns EXCEPT ![txn_of[t]].state = "aborted"]
    /\ txn_of' = [txn_of EXCEPT ![t] = 0]
    /\ ret' = [ret EXCEPT ![t] = "Ok"]
    /\ work' = [work EXCEPT ![t] = NoEntries]
    /\ UNCHANGED <<watchers_counter_id, watchers, readers, local, targets, chan,
                   calls, cancelled, cancelled_again, commit_order, fanout,
                   table_definitions, tables, snapshot, dropped>>

\* commit, the engine's commit succeeding: the write transaction is over and
\* the Batch is now to be drained.
commit_engine_ok(t) ==
    /\ pc[t] = "txn"
    /\ write_txn' = {}
    /\ pc' = [pc EXCEPT ![t] = "drain"]
    /\ txns' = [txns EXCEPT ![txn_of[t]].state = "committed"]
    /\ commit_order' = Append(commit_order, txn_of[t])
    /\ tables' = work[t]
    /\ work' = [work EXCEPT ![t] = NoEntries]
    /\ UNCHANGED <<watchers_counter_id, watchers, readers, local, batch, targets,
                   txn_of, chan, ret, calls, cancelled, cancelled_again, fanout,
                   table_definitions, snapshot, dropped>>

\* A commit that notes the engine's failure but still drains the Batch.
commit_engine_fails_drains(t) ==
    /\ pc[t] = "txn"
    /\ write_txn' = {}
    /\ pc' = [pc EXCEPT ![t] = "drain"]
    /\ txns' = [txns EXCEPT ![txn_of[t]].state = "failed"]
    /\ ret' = [ret EXCEPT ![t] = "CommitError"]
    /\ work' = [work EXCEPT ![t] = NoEntries]
    /\ UNCHANGED <<watchers_counter_id, watchers, readers, local, batch, targets,
                   txn_of, chan, calls, cancelled, cancelled_again, commit_order,
                   fanout,
                   table_definitions, tables, snapshot, dropped>>

\* commit, the engine's commit failing: the failure is returned, the Batch is
\* discarded.
commit_engine_fails(t) ==
    /\ pc[t] = "txn"
    /\ write_txn' = {}
    /\ pc' = [pc EXCEPT ![t] = "idle"]
    /\ batch' = [batch EXCEPT ![t] = <<>>]
    /\ txns' = [txns EXCEPT ![txn_of[t]].state = "failed"]
    /\ txn_of' = [txn_of EXCEPT ![t] = 0]
    /\ ret' = [ret EXCEPT ![t] = "CommitError"]
    /\ work' = [work EXCEPT ![t] = NoEntries]
    /\ UNCHANGED <<watchers_counter_id, watchers, readers, local, targets, chan,
                   calls, cancelled, cancelled_again, commit_order, fanout,
                   table_definitions, tables, snapshot, dropped>>

\* dispatch of the Batch's first event begins: shared access is taken (it is
\* granted whenever no writer holds the lock, and no state has a writer inside)
\* and the matching records are found.
dispatch_begin(t) ==
    /\ pc[t] = "drain"
    /\ batch[t] # <<>>
    /\ readers' = readers \cup {t}
    /\ targets' = [targets EXCEPT ![t] = find_senders(watchers, Head(batch[t]))]
    /\ pc' = [pc EXCEPT ![t] = "fanout"]
    /\ fanout' = Append(fanout, [txn |-> Head(batch[t]).txn, idx |-> Head(batch[t]).idx,
                                 live |-> all_senders(watchers), done |-> FALSE])
    /\ UNCHANGED <<watchers_counter_id, watchers, write_txn, local, batch, txn_of,
                   chan, ret, calls, cancelled, cancelled_again, txns, commit_order,
                   table_definitions, tables, work, snapshot, dropped>>

\* Sender::send: the event is queued, unless the Receiver is gone.
send(ch, c, event) == IF c \in dropped THEN ch ELSE [ch EXCEPT ![c] = Append(ch[c], event)]

\* A fan-out loop that stops at the first failed send.
dispatch_send_stops(t, c) ==
    /\ pc[t] = "fanout"
    /\ c \in targets[t]
    /\ chan' = send(chan, c, Head(batch[t]))
    /\ targets' = [targets EXCEPT ![t] = IF c \in dropped THEN {} ELSE targets[t] \ {c}]
    /\ UNCHANGED <<watchers_counter_id, watchers, readers, write_txn, pc, local, batch,
                   txn_of, ret, calls, cancelled, cancelled_again, txns, commit_order, fanout,
                   table_definitions, tables, work, snapshot, dropped>>

\* The fan-out loop sends a copy of the event on one matching record's
\* channel; a failed send (the Receiver is gone) is swallowed and the loop
\* goes on.
dispatch_send(t, c) ==
    /\ pc[t] = "fanout"
    /\ c \in targets[t]
    /\ chan' = send(chan, c, Head(batch[t]))
    /\ targets' = [targets EXCEPT ![t] = targets[t] \ {c}]
    /\ UNCHANGED <<watchers_counter_id, watchers, readers, write_txn, pc, local, batch,
                   txn_of, ret, calls, cancelled, cancelled_again, txns, commit_order, fanout,
                   table_definitions, tables, work, snapshot, dropped>>

\* A fan-out loop that ends without releasing its shared access.
dispatch_end_keeps_lock(t) ==
    /\ pc[t] = "fanout"
    /\ targets[t] = {}
    /\ batch' = [batch EXCEPT ![t] = Tail(batch[t])]
    /\ pc' = [pc EXCEPT ![t] = "drain"]
    /\ fanout' = [i \in DOMAIN fanout |->
                    IF fanout[i].txn = Head(batch[t]).txn /\ fanout[i].idx = Head(batch[t]).idx
                    THEN [fanout[i] EXCEPT !.done = TRUE] ELSE fanout[i]]
    /\ UNCHANGED <<watchers_counter_id, watchers, readers, write_txn, local, targets,
                   txn_of, chan, ret, calls, cancelled, cancelled_again, txns,
                   commit_order, table_definitions, tables, work, snapshot, dropped>>

\* The fan-out loop is over: shared access is released and the event leaves
\* the Batch.
dispatch_end(t) ==
    /\ pc[t] = "fanout"
    /\ targets[t] = {}
    /\ readers' = readers \ {t}
    /\ batch' = [batch EXCEPT ![t] = Tail(batch[t])]
    /\ pc' = [pc EXCEPT ![t] = "drain"]
    /\ fanout' = [i \in DOMAIN fanout |->
                    IF fanout[i].txn = Head(batch[t]).txn /\ fanout[i].idx = Head(batch[t]).idx
                    THEN [fanout[i] EXCEPT !.done = TRUE] ELSE fanout[i]]
    /\ UNCHANGED <<watchers_counter_id, watchers, write_txn, local, targets, txn_of,
                   chan, ret, calls, cancelled, cancelled_again, txns, commit_order,
                   table_definitions, tables, work, snapshot, dropped>>

\* commit returns success once the Batch is drained.
commit_returns(t) ==
    /\ pc[t] = "drain"
    /\ batch[t] = <<>>
    /\ pc' = [pc EXCEPT ![t] = "idle"]
    /\ txns' = [txns EXCEPT ![txn_of[t]].state = "done"]
    /\ txn_of' = [txn_of EXCEPT ![t] = 0]
    /\ ret' = [ret EXCEPT ![t] = "Ok"]
    /\ UNCHANGED <<watchers_counter_id, watchers, readers, write_txn, local, batch,
                   targets, chan, calls, cancelled, cancelled_again, commit_order, fanout,
                   table_definitions, tables, work, snapshot, dropped>>

----------------------------------------------------------------------------
(* The Receiver that a watch function returned is dropped by its owner. *)

drop_receiver(c) ==
    /\ c \in DOMAIN calls
    /\ calls[c].res = "Ok"
    /\ c \notin dropped
    /\ dropped' = dropped \cup {c}
    /\ UNCHANGED <<watchers_counter_id, watchers, readers, write_txn, pc, local, batch,
                   targets, txn_of, chan, ret, calls, cancelled, cancelled_again,
                   txns, commit_order, fanout,
                   table_definitions, tables, work, snapshot>>

----------------------------------------------------------------------------
(* Db::read_transaction *)

\* begin_read gives a snapshot of the committed tables; the ReadOnlyTransaction
\* is built around it.
read_transaction(t) ==
    /\ pc[t] = "idle"
    /\ snapshot' = [snapshot EXCEPT ![t] = tables]
    /\ ret' = [ret EXCEPT ![t] = "Ok"]
    /\ UNCHANGED <<watchers_counter_id, watchers, readers, write_txn, pc, local, batch,
                   targets, txn_of, chan, calls, cancelled, cancelled_again, txns,
                   commit_order, fanout,
                   table_definitions, tables, work, dropped>>

\* Db::read_transaction when begin_read fails: the failure is returned with `?`.
read_transaction_fails(t) ==
    /\ pc[t] = "idle"
    /\ ret' = [ret EXCEPT ![t] = "BeginError"]
    /\ UNCHANGED <<watchers_counter_id, watchers, readers, write_txn, pc, local, batch,
                   targets, txn_of, chan, calls, cancelled, cancelled_again, txns,
                   commit_order, fanout,
                   table_definitions, tables, work, snapshot, dropped>>

----------------------------------------------------------------------------
(* Db::define *)

\* T::struct_db_schema().secondary_tables_name
secondary_tables_name(T) ==
    IF T = "A" THEN {"table_a_N1", "table_a_N2"} ELSE {"table_b_N1", "table_b_N2"}

\* redb::TableDefinition::new
TableDefinition_new(name) == [name |-> name]

\* HashMap::insert
HashMap_insert(map, k, v) == [i \in DOMAIN map \cup {k} |-> IF i = k THEN v ELSE map[i]]

\* The loop of define over the secondary table names.
RECURSIVE define_secondary(_, _)
define_secondary(defs, names) ==
    IF names = {} THEN defs
    ELSE LET secondary_table_name == CHOOSE n \in names : TRUE
         IN  define_secondary(
                 HashMap_insert(defs, secondary_table_name,
                                TableDefinition_new(secondary_table_name)),
                 names \ {secondary_table_name})

\* A define that registers the primary table only.
define_tables_main_only(defs, T) ==
    HashMap_insert(defs, table_name(T), TableDefinition_new(table_name(T)))

\* The table definitions after define::<T>().
define_tables(defs, T) ==
    define_secondary(
        HashMap_insert(defs, table_name(T), TableDefinition_new(table_name(T))),
        secondary_tables_name(T))

\* define takes &mut self: it runs when no call is in progress and no
\* Transaction is alive, and nothing runs beside it.  It returns nothing.
define(T) ==
    /\ \A t \in Threads : pc[t] = "idle"
    /\ table_definitions' = define_tables(table_definitions, T)
    /\ UNCHANGED <<watchers_counter_id, watchers, readers, write_txn, pc, local, batch,
                   targets, txn_of, chan, calls, cancelled, cancelled_again, txns,
                   commit_order, fanout, ret,
                   tables, work, snapshot, dropped>>

----------------------------------------------------------------------------
(* The specification: two threads sharing one Db, each calling the watch   *)
(* functions, unwatch and write transactions in any order, MaxCalls calls  *)
(* in all.  A call is counted when it starts; the steps that finish a call *)
(* or end a transaction are not counted.                                   *)

ItemAB == [type |-> "A", pk |-> <<1, 2>>]
ItemBA == [type |-> "A", pk |-> <<2, 1>>]

\* A step that starts one of at most n calls.
counted(n) == ncalls < n /\ ncalls' = ncalls + 1
\* A step inside a call, or one that ends a transaction.
uncounted == ncalls' = ncalls

Next ==
    \E t \in Threads :
        \/ counted(MaxCalls) /\ primary_watch(t, "A", None)
        \/ counted(MaxCalls) /\ primary_watch_start_with(t, "A", <<1>>)
        \/ \E id \in U64 : counted(MaxCalls) /\ unwatch(t, id)
        \/ counted(MaxCalls) /\ transaction(t)
        \/ counted(MaxCalls) /\ transaction_fails(t)
        \/ counted(MaxCalls) /\ insert(t, ItemAB)
        \/ counted(MaxCalls) /\ update(t, ItemAB, ItemBA)
        \/ counted(MaxCalls) /\ remove(t, ItemBA)
        \/ uncounted /\ watch_generic_add(t)
        \/ uncounted /\ drop_transaction(t)
        \/ uncounted /\ commit_engine_ok(t)
        \/ uncounted /\ commit_engine_fails(t)
        \/ uncounted /\ dispatch_begin(t)
        \/ \E c \in targets[t] : uncounted /\ dispatch_send(t, c)
        \/ uncounted /\ dispatch_end(t)
        \/ uncounted /\ commit_returns(t)

Spec == Init /\ [][Next]_vars

----------------------------------------------------------------------------
(* The specification of the registry: two threads calling the four watch   *)
(* functions and unwatch in any order, IdCalls calls in all.               *)

NextIds ==
    \E t \in Threads :
        \/ counted(IdCalls) /\ primary_watch(t, "A", None)
        \/ counted(IdCalls) /\ primary_watch_start_with(t, "A", <<1>>)
        \/ counted(IdCalls) /\ secondary_watch(t, "A", "N1", Some(<<1, 2>>))
        \/ counted(IdCalls) /\ secondary_watch_start_with(t, "A", "N2", <<2>>)
        \/ \E id \in U64 : counted(IdCalls) /\ unwatch(t, id)
        \/ uncounted /\ watch_generic_add(t)

SpecIds == Init /\ [][NextIds]_vars

----------------------------------------------------------------------------
(* The specification of filter matching: one thread calls the primary     *)
(* watch functions with every type, key and prefix, and its transactions   *)
(* insert, update and remove every item, MatchCalls calls in all.          *)

Prefixes == {<<>>, <<1>>, <<2>>, <<1, 2>>}

NextMatch ==
    \E t \in {1} :
        \/ \E T \in Types : \E key \in {None} \cup {Some(k) : k \in Keys} :
               counted(MatchCalls) /\ primary_watch(t, T, key)
        \/ \E T \in Types : \E p \in Prefixes :
               counted(MatchCalls) /\ primary_watch_start_with(t, T, p)
        \/ counted(MatchCalls) /\ transaction(t)
        \/ \E item \in Items : counted(MatchCalls) /\ insert(t, item)
        \/ \E old_item, new_item \in Items :
               counted(MatchCalls) /\ update(t, old_item, new_item)
        \/ \E item \in Items : counted(MatchCalls) /\ remove(t, item)
        \/ uncounted /\ watch_generic_add(t)
        \/ uncounted /\ drop_transaction(t)
        \/ uncounted /\ commit_engine_ok(t)
        \/ uncounted /\ commit_engine_fails(t)
        \/ uncounted /\ dispatch_begin(t)
        \/ \E c \in targets[t] : uncounted /\ dispatch_send(t, c)
        \/ uncounted /\ dispatch_end(t)
        \/ uncounted /\ commit_returns(t)

SpecMatch == Init /\ [][NextMatch]_vars

----------------------------------------------------------------------------
(* The specification of the secondary watches: one thread calls the        *)
(* secondary watch functions on type A with every key definition, key and *)
(* prefix, and its transactions insert, update and remove every item of    *)
(* both types, SecCalls calls in all.                                      *)

NextSec ==
    \E t \in {1} :
        \/ \E key_def \in KeyDefs : \E key \in {None} \cup {Some(k) : k \in Keys} :
               counted(SecCalls) /\ secondary_watch(t, "A", key_def, key)
        \/ \E key_def \in KeyDefs : \E p \in Prefixes :
               counted(SecCalls) /\ secondary_watch_start_with(t, "A", key_def, p)
        \/ counted(SecCalls) /\ transaction(t)
        \/ \E item \in Items : counted(SecCalls) /\ insert(t, item)
        \/ \E old_item, new_item \in Items :
               counted(SecCalls) /\ update(t, old_item, new_item)
        \/ \E item \in Items : counted(SecCalls) /\ remove(t, item)
        \/ uncounted /\ watch_generic_add(t)
        \/ uncounted /\ drop_transaction(t)
        \/ uncounted /\ commit_engine_ok(t)
        \/ uncounted /\ commit_engine_fails(t)
        \/ uncounted /\ dispatch_begin(t)
        \/ \E c \in targets[t] : uncounted /\ dispatch_send(t, c)
        \/ uncounted /\ dispatch_end(t)
        \/ uncounted /\ commit_returns(t)

SpecSec == Init /\ [][NextSec]_vars

----------------------------------------------------------------------------
(* The specification of the schema registry and the tables: one thread     *)
(* defines the types, and inserts and removes items with a payload in      *)
(* write transactions and opens read transactions, TableCalls calls in     *)
(* all.                                                                    *)

\* Items of type A with a payload.
ItemsV == [type : {"A"}, pk : {<<1>>, <<1, 2>>}, val : {0, 1}]

NextTables ==
    \E t \in {1} :
        \/ \E T \in Types : counted(TableCalls) /\ define(T)
        \/ counted(TableCalls) /\ transaction(t)
        \/ counted(TableCalls) /\ transaction_fails(t)
        \/ \E item \in ItemsV : counted(TableCalls) /\ insert(t, item)
        \/ \E item \in {i \in ItemsV : i.val = 0} : counted(TableCalls) /\ remove(t, item)
        \/ counted(TableCalls) /\ read_transaction(t)
        \/ counted(TableCalls) /\ read_transaction_fails(t)
        \/ uncounted /\ drop_transaction(t)
        \/ uncounted /\ commit_engine_ok(t)
        \/ uncounted /\ commit_engine_fails(t)
        \/ uncounted /\ dispatch_begin(t)
        \/ uncounted /\ dispatch_end(t)
        \/ uncounted /\ commit_returns(t)

SpecTables == Init /\ [][NextTables]_vars

----------------------------------------------------------------------------
(* The specification of sends to dropped receivers: one thread registers   *)
(* watchers on the table of A, drops receivers, unwatches and commits       *)
(* inserts, SendCalls calls in all.                                        *)

NextSend ==
    \E t \in {1} :
        \/ counted(SendCalls) /\ primary_watch(t, "A", None)
        \/ \E c \in DOMAIN calls : counted(SendCalls) /\ drop_receiver(c)
        \/ \E id \in U64 : counted(SendCalls) /\ unwatch(t, id)
        \/ counted(SendCalls) /\ transaction(t)
        \/ counted(SendCalls) /\ insert(t, ItemAB)
        \/ uncounted /\ watch_generic_add(t)
        \/ uncounted /\ commit_engine_ok(t)
        \/ uncounted /\ dispatch_begin(t)
        \/ \E c \in targets[t] : uncounted /\ dispatch_send(t, c)
        \/ uncounted /\ dispatch_end(t)
        \/ uncounted /\ commit_returns(t)

SpecSend == Init /\ [][NextSend]_vars

----------------------------------------------------------------------------
(* The specification with fair scheduling: two threads register watchers,  *)
(* unwatch and commit inserts, LiveCalls calls in all.  A thread that is    *)
(* inside a call (watch_generic waiting for the registry lock, commit       *)
(* draining its Batch) is scheduled: the step it waits to take is taken if  *)
(* it stays possible.  Starting a call, and committing or dropping an open  *)
(* transaction, is up to the caller and asks for no fairness.               *)

\* The steps of thread t inside a call.
running(t) ==
    /\ uncounted
    /\ \/ watch_generic_add(t)
       \/ dispatch_begin(t)
       \/ \E c \in targets[t] : dispatch_send(t, c)
       \/ dispatch_end(t)
       \/ commit_returns(t)

NextLive ==
    \E t \in Threads :
        \/ counted(LiveCalls) /\ primary_watch(t, "A", None)
        \/ \E id \in U64 : counted(LiveCalls) /\ unwatch(t, id)
        \/ counted(LiveCalls) /\ transaction(t)
        \/ counted(LiveCalls) /\ insert(t, ItemAB)
        \/ uncounted /\ drop_transaction(t)
        \/ uncounted /\ commit_engine_ok(t)
        \/ uncounted /\ watch_generic_add(t)
        \/ uncounted /\ dispatch_begin(t)
        \/ \E c \in targets[t] : uncounted /\ dispatch_send(t, c)
        \/ uncounted /\ dispatch_end(t)
        \/ uncounted /\ commit_returns(t)

SpecLive == Init /\ [][NextLive]_vars /\ \A t \in Threads : WF_vars(running(t))

----------------------------------------------------------------------------
(* Notions the properties below are stated with. *)

Channels == DOMAIN chan
Txns == DOMAIN txns

\* The events sent on channel c that transaction x enqueued.
events_from(c, x) == SelectSeq(chan[c], LAMBDA e : e.txn = x)

\* Channel c belongs to a completed registration.
registered(c) == calls[c].res = "Ok"

\* The filter the call that created channel c asked for.
filter_of(c) ==
    LET k == calls[c].call
    IN  CASE k.fn = "primary_watch" -> primary_watch_filter(k.type, k.arg)
          [] k.fn = "primary_watch_start_with" ->
                 primary_watch_start_with_filter(k.type, k.arg)
          [] k.fn = "secondary_watch" -> secondary_watch_filter(k.type, k.key_def, k.arg)
          [] k.fn = "secondary_watch_start_with" ->
                 secondary_watch_start_with_filter(k.type, k.key_def, k.arg)

\* Transaction x enqueued an event that the watcher of channel c was waiting
\* for: c was registered before x began and its entry is in the registry
\* still.
had_watched_event(x, c) ==
    /\ registered(c) /\ calls[c].at < x
    /\ calls[c].id \in DOMAIN watchers /\ watchers[calls[c].id].sender = c
    /\ \E i \in DOMAIN txns[x].events : filter_matches(filter_of(c), txns[x].events[i])

----------------------------------------------------------------------------
(* C1: an event is on a watcher's channel only if the engine's commit of   *)
(* the transaction that enqueued it has succeeded: never while the         *)
(* transaction is open, and never for a transaction dropped without        *)
(* commit.                                                                 *)
C1_EventsOnlyAfterCommit ==
    \A c \in Channels : \A i \in DOMAIN chan[c] :
        txns[chan[c][i].txn].state \in {"committed", "done"}

\* A watcher that was registered when a transaction holding an event for it
\* was dropped has received nothing of it, and has received the event of a
\* transaction that committed.
C1_Witness ==
    \E c \in Channels : \E x, y \in Txns :
        /\ txns[x].state = "aborted"
        /\ had_watched_event(x, c)
        /\ events_from(c, x) = <<>>
        /\ txns[y].state = "done"
        /\ events_from(c, y) # <<>>

\* C1 with "before commit returns success" taken to the letter: every event
\* on a channel belongs to a transaction whose commit has returned.  The
\* Batch is drained inside commit, after the engine's commit and before
\* commit returns, so a receiver can hold an event while commit still runs.
C1_EventsOnlyAfterCommitReturns ==
    \A c \in Channels : \A i \in DOMAIN chan[c] :
        txns[chan[c][i].txn].state = "done"

(* C2: when the engine's commit fails, commit returns the failure, the     *)
(* Batch is discarded and no event of the transaction is on any channel.   *)
C2_FailedCommitSendsNothing ==
    /\ \A x \in Txns : txns[x].state = "failed" =>
            \A c \in Channels : events_from(c, x) = <<>>
    /\ \A t \in Threads : ret[t] = "CommitError" => pc[t] \in {"idle", "add_sender"} /\ batch[t] = <<>>

\* A commit has failed for a transaction holding an event that a registered
\* watcher was waiting for.
C2_Witness ==
    \E t \in Threads : \E c \in Channels : \E x \in Txns :
        /\ ret[t] = "CommitError"
        /\ txns[x].state = "failed"
        /\ had_watched_event(x, c)
        /\ chan[c] = <<>>

(* C3: no two successful registrations return the same id.  The counter   *)
(* wraps to 0 after the failing call, so the fifth call returns 0 again.   *)
C3_IdNeverReused ==
    \A c, d \in Channels :
        (c # d /\ registered(c) /\ registered(d)) => calls[c].id # calls[d].id

(* C4: once a registration has failed with MaxWatcherReached, every later  *)
(* registration fails with it too.                                         *)
C4_ExhaustionIsTerminal ==
    \A c, d \in Channels :
        (c < d /\ calls[c].res = "MaxWatcherReached") => calls[d].res # "Ok"

\* A registration has failed with MaxWatcherReached.
exhausted == \E c \in Channels : calls[c].res = "MaxWatcherReached"

(* C5: after a registration has failed with MaxWatcherReached, every        *)
(* watcher registered and not unwatched is in the registry under its id    *)
(* with its filter and its channel (which is what lets it receive the      *)
(* events of later commits), and no failed registration has an entry.      *)
C5_WatchersSurviveExhaustion ==
    exhausted =>
        /\ \A c \in Channels : (registered(c) /\ c \notin cancelled) =>
                /\ calls[c].id \in DOMAIN watchers
                /\ watchers[calls[c].id] = [filter |-> filter_of(c), sender |-> c]
        /\ \A c \in Channels : calls[c].res = "MaxWatcherReached" =>
                c \notin all_senders(watchers)

(* C6: unwatch(id) returns success for every id; after it the registry has *)
(* no entry for id; the entries of the other ids are as before; and when   *)
(* id had no entry (removed before, or never issued) the registry is       *)
(* unchanged.                                                              *)
C6_UnwatchIdempotent ==
    [][\A t \in Threads : \A id \in U64 :
          unwatch(t, id) =>
              /\ ret'[t] = "Ok"
              /\ id \notin DOMAIN watchers'
              /\ DOMAIN watchers' = DOMAIN watchers \ {id}
              /\ \A j \in DOMAIN watchers' : watchers'[j] = watchers[j]
              /\ (id \notin DOMAIN watchers => watchers' = watchers)]_vars

\* An id has been unwatched twice, its entry is gone and another watcher's
\* entry is still there.
C6_Witness ==
    \E c, d \in Channels : \E t \in Threads :
        /\ c \in cancelled_again
        /\ calls[c].id \notin DOMAIN watchers
        /\ ret[t] = "Ok" /\ pc[t] = "idle"
        /\ registered(d) /\ d \notin cancelled
        /\ calls[d].id \in DOMAIN watchers /\ watchers[calls[d].id].sender = d

(* C7: once unwatch has been given a watcher's id, nothing more is sent on *)
(* that watcher's channel, by any thread, and what was sent before stays   *)
(* on the channel.                                                          *)
C7_NothingSentAfterUnwatch ==
    [][\A c \in cancelled' : chan'[c] = chan[c]]_vars

\* A watcher was unwatched between the two events of a committing
\* transaction that both match its filter: the first event is on its channel,
\* the second never arrived.
C7_Witness ==
    \E c \in Channels : \E x \in Txns :
        /\ c \in cancelled
        /\ txns[x].state = "done"
        /\ Len(txns[x].events) = 2
        /\ \A i \in 1..2 : filter_matches(filter_of(c), txns[x].events[i])
        /\ chan[c] = <<txns[x].events[1]>>

\* The place of transaction x in the order of the engine's commits.
commit_pos(x) == CHOOSE i \in DOMAIN commit_order : commit_order[i] = x

(* C8: on every channel the events of one transaction are in the order of  *)
(* its Batch, and the events of different transactions are in the order of *)
(* the commits (so never interleaved).                                     *)
C8_DeliveryOrder ==
    \A c \in Channels : \A i, j \in DOMAIN chan[c] :
        i < j =>
            IF chan[c][i].txn = chan[c][j].txn
            THEN chan[c][i].idx < chan[c][j].idx
            ELSE commit_pos(chan[c][i].txn) < commit_pos(chan[c][j].txn)

----------------------------------------------------------------------------
(* Notions for the matching properties. *)

\* How many times event e is on channel c.
deliveries(c, e) == Len(SelectSeq(chan[c], LAMBDA d : d = e))

\* The fan-outs of event e begun so far.
fanouts_of(e) == {i \in DOMAIN fanout : fanout[i].txn = e.txn /\ fanout[i].idx = e.idx}

\* Every event enqueued so far.
AllEvents == {txns[x].events[i] : <<x, i>> \in
                 {p \in Txns \X (1..MaxCalls + MatchCalls) : p[2] <= Len(txns[p[1]].events)}}

\* The primary keys an event is about: one, or old and new for an Update.
event_keys(e) == {e.items[i].pk : i \in DOMAIN e.items}

\* The table an event is on.
event_table(e) == table_name(e.items[1].type)

\* Channel c has event e as often as it should: once if c's entry was in
\* the registry when e was fanned out and the watch wants e, never otherwise
\* (and not more than that while the fan-out runs).
delivered_as_wanted(c, e, wants) ==
    LET n == IF wants /\ \E i \in fanouts_of(e) : c \in fanout[i].live THEN 1 ELSE 0
    IN  IF \E i \in fanouts_of(e) : fanout[i].done
        THEN deliveries(c, e) = n
        ELSE deliveries(c, e) <= n

(* C9: a watcher from primary_watch(None) gets every event on its type's   *)
(* table and none of another table; one from primary_watch(Some(k)) gets   *)
(* an Insert or Delete exactly when its key is k and an Update exactly     *)
(* when its old or its new key is k; each such event arrives once, the     *)
(* Update with both items.                                                 *)
C9_PrimaryWatchSelects ==
    \A c \in Channels : \A e \in AllEvents :
        calls[c].call.fn = "primary_watch" =>
            delivered_as_wanted(c, e,
                /\ event_table(e) = table_name(calls[c].call.type)
                /\ \/ calls[c].call.arg = None
                   \/ \E k \in event_keys(e) : calls[c].call.arg = Some(k))

\* A watcher on key k, registered before the commit, has received once, with
\* both items, the Update whose old and new key are both k.
C9_Witness ==
    \E c \in Channels : \E x \in Txns :
        /\ calls[c].call.fn = "primary_watch" /\ calls[c].call.arg # None
        /\ txns[x].state = "done" /\ Len(txns[x].events) = 1
        /\ c \in fanout[1].live
        /\ txns[x].events[1].kind = "Update"
        /\ Len(txns[x].events[1].items) = 2
        /\ event_keys(txns[x].events[1]) = {calls[c].call.arg[1]}
        /\ chan[c] = <<txns[x].events[1]>>

(* C10: a watcher from primary_watch_start_with(p) gets an event of its    *)
(* type's table exactly when p is a prefix of the event's primary key (of  *)
(* the old or of the new key for an Update).                               *)
C10_PrefixWatchSelects ==
    \A c \in Channels : \A e \in AllEvents :
        calls[c].call.fn = "primary_watch_start_with" =>
            delivered_as_wanted(c, e,
                /\ event_table(e) = table_name(calls[c].call.type)
                /\ \E k \in event_keys(e) :
                       /\ Len(calls[c].call.arg) <= Len(k)
                       /\ \A n \in 1..Len(calls[c].call.arg) : k[n] = calls[c].call.arg[n])

\* A watcher on the prefix "a", registered before the commit, has received
\* the Update of "ba" to "ab" once: its new key starts with "a", its old key
\* does not.
C10_Witness ==
    \E c \in Channels : \E x \in Txns :
        /\ calls[c].call = [fn |-> "primary_watch_start_with", type |-> "A", key_def |-> "",
                            arg |-> <<1>>]
        /\ txns[x].state = "done" /\ Len(txns[x].events) = 1
        /\ c \in fanout[1].live
        /\ txns[x].events[1].kind = "Update"
        /\ txns[x].events[1].items = <<[type |-> "A", pk |-> <<2, 1>>],
                                       [type |-> "A", pk |-> <<1, 2>>]>>
        /\ chan[c] = <<txns[x].events[1]>>

----------------------------------------------------------------------------
\* The keys the items of an event have under the index key_def.
event_secondary_keys(e, key_def) ==
    {secondary_keys(e.items[i])[key_def] : i \in DOMAIN e.items}

(* C11: a watcher from secondary_watch or secondary_watch_start_with on    *)
(* the key definition N gets an event of its type's table exactly when the *)
(* key that an item of the event has under N is the watched key (exact),   *)
(* starts with the watched prefix (prefix), or in any case (None); the     *)
(* primary key and the keys under other indexes play no part.              *)
C11_SecondaryWatchSelects ==
    \A c \in Channels : \A e \in AllEvents :
        LET k == calls[c].call
        IN  /\ k.fn = "secondary_watch" =>
                delivered_as_wanted(c, e,
                    /\ event_table(e) = table_name(k.type)
                    /\ \/ k.arg = None
                       \/ \E sk \in event_secondary_keys(e, k.key_def) : k.arg = Some(sk))
            /\ k.fn = "secondary_watch_start_with" =>
                delivered_as_wanted(c, e,
                    /\ event_table(e) = table_name(k.type)
                    /\ \E sk \in event_secondary_keys(e, k.key_def) :
                           /\ Len(k.arg) <= Len(sk)
                           /\ \A n \in 1..Len(k.arg) : sk[n] = k.arg[n])

\* A watcher on the key "ab" under N1, registered before the commit, has
\* received nothing of the committed Insert of the item whose primary key is
\* "ab" and whose key under N1 is "ba".
C11_Witness ==
    \E c \in Channels : \E x \in Txns :
        /\ calls[c].call = [fn |-> "secondary_watch", type |-> "A", key_def |-> "N1",
                            arg |-> Some(<<1, 2>>)]
        /\ txns[x].state = "done" /\ Len(txns[x].events) = 1
        /\ c \in fanout[1].live /\ fanout[1].done
        /\ txns[x].events[1].kind = "Insert"
        /\ txns[x].events[1].items = <<[type |-> "A", pk |-> <<1, 2>>]>>
        /\ secondary_keys(txns[x].events[1].items[1])["N1"] = <<2, 1>>
        /\ chan[c] = <<>>

----------------------------------------------------------------------------
(* C12: when a transaction that has done insert(item) and nothing else     *)
(* commits, the committed tables give Some(item) for the item's key and    *)
(* the length of the primary table is one more than before the transaction *)
(* if the key was absent and the same if it was present; a read            *)
(* transaction opened later sees the committed tables.                     *)
C12_InsertThenCommit ==
    [][/\ \A t \in Threads :
            (/\ commit_engine_ok(t)
             /\ Len(batch[t]) = 1
             /\ batch[t][1].kind = "Insert") =>
                LET item == batch[t][1].items[1]
                IN  /\ primary_get(tables', item.type, item.pk) = Some(item)
                    /\ len(tables', item.type) =
                           len(tables, item.type) +
                           (IF primary_get(tables, item.type, item.pk) = None THEN 1 ELSE 0)
       /\ \A t \in Threads : read_transaction(t) => snapshot'[t] = tables]_vars

\* Two transactions have committed an insert under the same key, the second
\* with another payload, and a read transaction opened after them sees the
\* second item under the key and one entry in the table.
C12_Witness ==
    \E t \in Threads : \E x, y \in Txns :
        /\ x < y
        /\ txns[x].state = "done" /\ txns[y].state = "done"
        /\ Len(txns[x].events) = 1 /\ Len(txns[y].events) = 1
        /\ txns[x].events[1].kind = "Insert" /\ txns[y].events[1].kind = "Insert"
        /\ txns[x].events[1].items[1] = [type |-> "A", pk |-> <<1>>, val |-> 0]
        /\ txns[y].events[1].items[1] = [type |-> "A", pk |-> <<1>>, val |-> 1]
        /\ primary_get(snapshot[t], "A", <<1>>) = Some([type |-> "A", pk |-> <<1>>, val |-> 1])
        /\ len(snapshot[t], "A") = 1

----------------------------------------------------------------------------
\* What a mutation does to the tables, told by its event.
apply_event(tb, e) ==
    CASE e.kind = "Insert" ->
             table_insert(tb, table_name(e.items[1].type), e.items[1].pk, e.items[1])
      [] e.kind = "Update" ->
             table_insert(tb, table_name(e.items[2].type), e.items[2].pk, e.items[2])
      [] e.kind = "Delete" ->
             table_remove(tb, table_name(e.items[1].type), e.items[1].pk)

RECURSIVE apply_events(_, _)
apply_events(tb, events) ==
    IF events = <<>> THEN tb
    ELSE apply_events(apply_event(tb, Head(events)), Tail(events))

\* The tables after the transactions of order, run one after the other.
RECURSIVE serial_result(_)
serial_result(order) ==
    IF order = <<>> THEN NoEntries
    ELSE apply_events(serial_result(SubSeq(order, 1, Len(order) - 1)),
                      txns[order[Len(order)]].events)

(* C13: at most one write transaction is open at a time, and the committed *)
(* tables are those that the committed transactions give when run one      *)
(* after the other in the order of their commits, so that no committed     *)
(* mutation is lost.                                                       *)
C13_WritesSerialized ==
    /\ Cardinality({t \in Threads : pc[t] = "txn"}) <= 1
    /\ Cardinality(write_txn) <= 1
    /\ tables = serial_result(commit_order)
    /\ \A t \in Threads : pc[t] = "txn" =>
           work[t] = apply_events(tables, txns[txn_of[t]].events)

\* While thread 1 is still inside the commit of its insert of "ab", thread 2
\* has a write transaction open that sees that insert and has added "ba".
C13_Witness ==
    /\ pc[1] \in {"drain", "fanout"}
    /\ pc[2] = "txn"
    /\ commit_order = <<txn_of[1]>>
    /\ DOMAIN tables = {<<"table_a", <<1, 2>>>>}
    /\ DOMAIN work[2] = {<<"table_a", <<1, 2>>>>, <<"table_a", <<2, 1>>>>}

(* C14: define::<T>() returns nothing (it cannot fail); after it the       *)
(* schema registry maps T's primary table name and each of T's secondary   *)
(* table names to the table definition of that name, whatever was there    *)
(* before; the entries of the other names are as before; and defining T    *)
(* once more changes nothing.                                              *)
C14_DefineRegisters ==
    [][\A T \in Types :
          define(T) =>
              LET names == {table_name(T)} \cup secondary_tables_name(T)
              IN  /\ ret' = ret
                  /\ DOMAIN table_definitions' = DOMAIN table_definitions \cup names
                  /\ \A n \in names : table_definitions'[n] = TableDefinition_new(n)
                  /\ \A n \in DOMAIN table_definitions \ names :
                         table_definitions'[n] = table_definitions[n]
                  /\ define_tables(table_definitions', T) = table_definitions'
                  /\ (names \subseteq DOMAIN table_definitions =>
                         table_definitions' = table_definitions)]_vars

\* Both types are defined: the three tables of A were left as they were
\* when B was defined after it, or the other way round.
C14_Witness ==
    /\ DOMAIN table_definitions =
           {"table_a", "table_a_N1", "table_a_N2", "table_b", "table_b_N1", "table_b_N2"}
    /\ \A n \in DOMAIN table_definitions : table_definitions[n] = TableDefinition_new(n)

----------------------------------------------------------------------------
(* C15: a registration that is given an id after other registrations have *)
(* returned gets an id greater than theirs.  The counter wraps to 0 after  *)
(* the failing call, so the registration after it gets 0.                  *)
C15_IdsIncrease ==
    [][(/\ Len(calls') = Len(calls) + 1
        /\ calls'[Len(calls')].res = "pending") =>
           \A c \in DOMAIN calls :
               calls[c].res = "Ok" => calls[c].id < calls'[Len(calls')].id]_vars

----------------------------------------------------------------------------
(* C16: once a commit has returned, a watcher whose filter matches every   *)
(* event of the transaction has all of them or none of them.  The registry *)
(* lock is taken for each event's fan-out and released after it, so a      *)
(* watch or unwatch call gets in between two events of one Batch.          *)
C16_BatchAllOrNothing ==
    \A x \in Txns : \A c \in Channels :
        (/\ txns[x].state = "done"
         /\ \A i \in DOMAIN txns[x].events :
                filter_matches(filter_of(c), txns[x].events[i])) =>
            \/ events_from(c, x) = txns[x].events
            \/ events_from(c, x) = <<>>

----------------------------------------------------------------------------
\* The commit of every transaction whose engine commit has succeeded is
\* still running or has returned success.
commits_succeed ==
    \A x \in Txns :
        txns[x].state = "committed" =>
            \E t \in Threads : txn_of[t] = x /\ pc[t] \in {"drain", "fanout"}

\* Every watcher whose Receiver is there gets the events that match its
\* filter, whatever became of the sends to the others.
live_watchers_served ==
    \A c \in Channels \ dropped : \A e \in AllEvents :
        delivered_as_wanted(c, e, filter_matches(filter_of(c), e))

(* C17: a send to a watcher whose Receiver was dropped fails and is         *)
(* swallowed: the commit goes on and returns success, every other matching *)
(* watcher gets the event, and an entry leaves the registry only by an     *)
(* unwatch of its id.                                                       *)
C17_FailedSendSwallowed ==
    [][/\ commits_succeed'
       /\ live_watchers_served'
       /\ \A id \in DOMAIN watchers :
              id \notin DOMAIN watchers' => \E t \in Threads : unwatch(t, id)]_vars

\* Of two watchers on the table, one dropped its Receiver before the commit
\* of an insert: the commit has returned Ok, the other watcher has the event,
\* and the entry of the dead one is in the registry still.
C17_Witness ==
    \E c, d \in Channels : \E x \in Txns : \E t \in Threads :
        /\ c \in dropped /\ d \notin dropped
        /\ txns[x].state = "done" /\ Len(txns[x].events) = 1
        /\ ret[t] = "Ok" /\ pc[t] = "idle"
        /\ fanout[1].live = {c, d} /\ fanout[1].done
        /\ filter_matches(filter_of(c), txns[x].events[1])
        /\ chan[c] = <<>>
        /\ chan[d] = <<txns[x].events[1]>>
        /\ calls[c].id \in DOMAIN watchers /\ watchers[calls[c].id].sender = c

----------------------------------------------------------------------------
(* C18: no deadlock on the registry lock.  A thread inside watch_generic   *)
(* or inside a commit's drain gets back to its caller; the shared access   *)
(* that dispatch holds is given up again, so that an unwatch or a          *)
(* registration waiting for exclusive access gets it; and the lock is held *)
(* only by threads inside a fan-out loop, whose steps take no lock.        *)
C18_NoRegistryDeadlock ==
    /\ \A t \in Threads :
           (pc[t] \in {"add_sender", "drain", "fanout"}) ~> (pc[t] = "idle")
    /\ (readers # {}) ~> (readers = {})
    /\ [](\A t \in readers : pc[t] = "fanout")

\* Thread 1 is in watch_generic, waiting for exclusive access to the
\* registry, while thread 2 holds shared access in the fan-out of an event.
C18_Witness ==
    /\ pc[1] = "add_sender"
    /\ readers = {2}
    /\ pc[2] = "fanout"
    /\ ~ENABLED watch_generic_add(1)

----------------------------------------------------------------------------
(* C19: every registration attempt, successful or failing, advances the    *)
(* counter by exactly one, and the registrations that are given an id get  *)
(* 0, 1, 2, ... in the order of their attempts, never u64::MAX.  The       *)
(* attempt that finds u64::MAX in the counter takes it back to 0, and the  *)
(* registration after it is given 0 again.                                 *)
C19_CounterAdvancesByOne ==
    [][Len(calls') = Len(calls) + 1 =>
          LET call == calls'[Len(calls')]
          IN  /\ watchers_counter_id' = watchers_counter_id + 1
              /\ call.res = "pending" =>
                     /\ call.id # U64_MAX
                     /\ call.id = Cardinality({c \in DOMAIN calls :
                                                  calls[c].res \in {"Ok", "pending"}})]_vars

----------------------------------------------------------------------------
(* C20: the registry holds exactly the watchers that were registered and   *)
(* not unwatched since: its ids are theirs, and each of them has its one   *)
(* entry, under the id it was given, with the filter it asked for and its  *)
(* own channel.  After the counter has wrapped a registration is given an  *)
(* id that is in use, and its entry takes the place of the older           *)
(* watcher's.                                                              *)
C20_RegistryConsistent ==
    LET live == {c \in Channels : registered(c) /\ c \notin cancelled}
    IN  /\ DOMAIN watchers = {calls[c].id : c \in live}
        /\ \A c \in live :
               watchers[calls[c].id] = [filter |-> filter_of(c), sender |-> c]
        /\ Cardinality(DOMAIN watchers) = Cardinality(live)

====
